---- MODULE Spec2Model ----
(***************************************************************************)
(* A model of the sysfs GPIO wrapper of gpio.c / gpio.h.                   *)
(*                                                                         *)
(* State: the kernel's sysfs GPIO tree (which pins have a gpioN directory, *)
(* and the contents of each pin's direction, value and edge files), the    *)
(* process's descriptor table, and for each caller (thread) the locals of  *)
(* the library function it is executing.  Every library function is split  *)
(* at its system calls: one action per access(), open(), write()/read()    *)
(* and close(), so that calls of different callers interleave between      *)
(* system calls.  The outcome of every system call is chosen by the        *)
(* environment among the values the call can return.                       *)
(***************************************************************************)
EXTENDS Integers, Sequences, FiniteSets, TLC

VARIABLES
    sysfs,       \* the kernel's tree: exported pins, direction/value/edge files
    fdtab,       \* the process's descriptor table
    t,           \* per caller: the locals of the function it executes
    outv,        \* per caller: the variable it passes to gpio_get_value
    handed,      \* descriptors gpio_open returned, not yet given to gpio_close
    lastSet,     \* per pin: the level of the last successful gpio_set_value
    ncalls,      \* the number of calls made so far
    owns,        \* per caller: the pins it makes calls for
    lastExport   \* the pin of the successful gpio_export that returned last

vars == <<sysfs, fdtab, t, outv, handed, lastSet, ncalls, owns, lastExport>>

(***************************************************************************)
(* Bounds of the model.                                                    *)
(***************************************************************************)
\* number of library calls made in one behaviour
MaxCalls == 2
\* number of descriptor slots of the process (open fails when all are taken)
MaxFds == 2

\* the pin numbers callers pass (one and two decimal digits)
Pins == {7, 12}
\* the callers (threads of the process)
Callers == {1, 2}

(***************************************************************************)
(* gpio.h: the enumerations.                                               *)
(***************************************************************************)
E_GPIO_IN == 0
E_GPIO_OUT == 1
E_GPIO_LOW == 0
E_GPIO_HIGH == 1
E_GPIO_NONE == 0
E_GPIO_RISING == 1
E_GPIO_FALLING == 2
E_GPIO_BOTH == 3

\* argument values callers pass, including one value outside each enumeration
DirectionArgs == {E_GPIO_IN, E_GPIO_OUT, 2}
ValueArgs == {E_GPIO_LOW, E_GPIO_HIGH, 2}
EdgeArgs == {E_GPIO_NONE, E_GPIO_RISING, E_GPIO_FALLING, E_GPIO_BOTH, 4}

(***************************************************************************)
(* Strings are sequences of characters.                                    *)
(***************************************************************************)
NUL == "NUL"
lit_in == <<"i", "n">>
lit_out == <<"o", "u", "t">>
lit_0 == <<"0">>
lit_1 == <<"1">>
lit_none == <<"n", "o", "n", "e">>
lit_rising == <<"r", "i", "s", "i", "n", "g">>
lit_falling == <<"f", "a", "l", "l", "i", "n", "g">>
lit_both == <<"b", "o", "t", "h">>

Digits == <<"0", "1", "2", "3", "4", "5", "6", "7", "8", "9">>

\* snprintf(buf, size, "%d", n) for n >= 0: the decimal digits of n
RECURSIVE Dec(_)
Dec(n) == IF n < 10 THEN <<Digits[n + 1]>>
          ELSE Append(Dec(n \div 10), Digits[(n % 10) + 1])

DigitVal(ch) == CHOOSE d \in 0..9 : Digits[d + 1] = ch

\* the kernel's parse of a decimal string (the gpioN of a path, the number
\* written to export/unexport)
RECURSIVE ParseDec(_)
ParseDec(s) == IF Len(s) = 0 THEN 0
               ELSE 10 * ParseDec(SubSeq(s, 1, Len(s) - 1)) + DigitVal(s[Len(s)])

\* snprintf(cmd_buf, ..., "%s/gpio%d", SYS_GPIO_DIR, gpio_num) and the
\* other paths: the file's name under /sys/class/gpio and the digits of N
PathGpio(gpio_num) == [file |-> "gpio", num |-> Dec(gpio_num)]
PathExport == [file |-> "export", num |-> <<>>]
PathUnexport == [file |-> "unexport", num |-> <<>>]
PathDirection(gpio_num) == [file |-> "direction", num |-> Dec(gpio_num)]
PathValue(gpio_num) == [file |-> "value", num |-> Dec(gpio_num)]
PathEdge(gpio_num) == [file |-> "edge", num |-> Dec(gpio_num)]
NoPath == [file |-> "", num |-> <<>>]

(***************************************************************************)
(* The kernel side: the sysfs tree.                                        *)
(***************************************************************************)
\* whether the path names an existing file or directory
Exists(fs, path) ==
    IF path.file \in {"export", "unexport"} THEN TRUE
    ELSE ParseDec(path.num) \in fs.exported

\* access(path, F_OK)
sys_access(fs, path) == IF Exists(fs, path) THEN 0 ELSE -1

\* the tree after the kernel accepted the whole of buf on the file at path
Store(fs, path, buf) ==
    LET n == ParseDec(path.num) IN
    CASE path.file = "export" ->
           [fs EXCEPT !.exported = @ \cup {ParseDec(buf)}]
      [] path.file = "unexport" ->
           [fs EXCEPT !.exported = @ \ {ParseDec(buf)}]
      [] path.file = "direction" -> [fs EXCEPT !.direction[n] = buf]
      [] path.file = "value" -> [fs EXCEPT !.value[n] = buf]
      [] path.file = "edge" -> [fs EXCEPT !.edge[n] = buf]
      [] OTHER -> fs

\* write(fd, buf, len) returning ret: the tree changes when all of buf was
\* accepted; a failed or short write leaves it as it was
AfterWrite(fs, path, buf, ret) ==
    IF ret = Len(buf) THEN Store(fs, path, buf) ELSE fs

\* whether the file at path takes the string buf: a decimal number for
\* export and unexport, one of the file's words for the others
Accepts(path, buf) ==
    CASE path.file \in {"export", "unexport"} ->
           Len(buf) > 0 /\ \A i \in 1..Len(buf) : \E d \in 1..10 : Digits[d] = buf[i]
      [] path.file = "direction" -> buf \in {lit_in, lit_out}
      [] path.file = "value" -> buf \in {lit_0, lit_1}
      [] path.file = "edge" -> buf \in {lit_none, lit_rising, lit_falling, lit_both}
      [] OTHER -> FALSE

\* the values write(fd, buf, len) can return: -1, or the number of bytes
\* accepted when the file takes the string
WriteRets(path, buf) ==
    {-1} \cup (IF Accepts(path, buf) THEN 0..Len(buf) ELSE {})

\* the values read(fd, &ch, 1) can return on a file holding content
ReadRets(content) == {-1, IF Len(content) = 0 THEN 0 ELSE 1}

\* the values close(fd) can return
CloseRets == {0, -1}

(***************************************************************************)
(* The process's descriptor table.                                         *)
(***************************************************************************)
FdNums == 3..(2 + MaxFds)
Closed == [path |-> NoPath, flags |-> ""]
OpenFds == {fd \in FdNums : fdtab[fd] # Closed}
FreeFds == FdNums \ OpenFds
LowestFree == CHOOSE fd \in FreeFds : \A g \in FreeFds : fd <= g

\* the values open(path, flags) can return: the lowest free descriptor, or
\* -1 (the file does not exist, no descriptor is free, or any other error)
OpenRets(fs, path) ==
    {-1} \cup (IF Exists(fs, path) /\ FreeFds # {} THEN {LowestFree} ELSE {})

\* the table after open returned fd
AfterOpen(tab, fd, path, flags) ==
    IF fd >= 0 THEN [tab EXCEPT ![fd] = [path |-> path, flags |-> flags]]
    ELSE tab

\* the table after close(fd): on Linux the descriptor is released whatever
\* close returns
AfterClose(tab, fd) ==
    IF fd \in FdNums THEN [tab EXCEPT ![fd] = Closed] ELSE tab

(***************************************************************************)
(* The callers.  t[c] holds the locals of the library function caller c is *)
(* executing (named as in gpio.c), the position pc in it, the value it     *)
(* returns (retval, valid at pc = "done"), and two records of the call:    *)
(* sys, the system calls made so far with what each returned, and pre, the *)
(* state at the moment of the call.                                        *)
(***************************************************************************)
ret_true == 1
ret_false == 0

\* the kernel-visible state of the pins in S: which are exported, and their
\* direction, value and edge
View(fs, S) == [exported |-> fs.exported \cap S,
                direction |-> [p \in S |-> fs.direction[p]],
                value |-> [p \in S |-> fs.value[p]],
                edge |-> [p \in S |-> fs.edge[p]]]

NoPre == [sysfs |-> [exported |-> {}, direction |-> <<>>, value |-> <<>>,
                     edge |-> <<>>],
          outv |-> E_GPIO_LOW, open |-> {}]

Idle == [pc |-> "idle", op |-> "", gpio_num |-> -1, arg |-> -1,
         cmd_buf |-> NoPath, fd |-> -1, ret |-> -1, len |-> 0, ch |-> NUL,
         retval |-> -1, sys |-> <<>>, pre |-> NoPre]

\* what caller c records when it makes a call: the state of its pins, its
\* variable outv[c] and the descriptors open in the process
Snapshot(c) == [sysfs |-> View(sysfs, owns[c]), outv |-> outv[c],
                open |-> OpenFds]

\* the locals on entry to function f with pin p and second argument a
Enter(c, f, p, a) ==
    [Idle EXCEPT !.op = f, !.gpio_num = p, !.arg = a, !.pre = Snapshot(c)]

Sys(rec, name, r) == Append(rec.sys, [call |-> name, ret |-> r])

\* owns[c] is the set of pins caller c makes calls for (empty: there is no
\* such caller).  Caller c may start a call on pin p when it is idle and p
\* is one of its pins: callers with disjoint pins run concurrently, calls
\* for one pin are made by one caller, one after the other.
CanCall(c, p) ==
    /\ p \in owns[c]
    /\ t[c].pc = "idle"
    /\ ncalls < MaxCalls

At(c, f, pc) == t[c].op = f /\ t[c].pc = pc

\* whether the descriptor was opened for writing / for reading
Writable(fd) == fd \in OpenFds /\ fdtab[fd].flags = "O_WRONLY"
Readable(fd) == fd \in OpenFds /\ fdtab[fd].flags \in {"O_RDONLY", "O_RDONLY|O_NONBLOCK"}

(***************************************************************************)
(* Steps shared by the functions' actions.                                 *)
(***************************************************************************)
\* entry, then snprintf of the gpioN path and access(): when access returns
\* earlyOn the function returns earlyVal at once, otherwise it goes on to
\* open its file
AccessStep(c, f, p, a, earlyOn, earlyVal) ==
    LET e == Enter(c, f, p, a)
        buf == PathGpio(p)
        r == sys_access(sysfs, buf)
        early == (r = earlyOn)
    IN  /\ CanCall(c, p)
        /\ t' = [t EXCEPT ![c] =
                   [e EXCEPT !.cmd_buf = buf, !.ret = r,
                             !.sys = Sys(e, "access", r),
                             !.pc = IF early THEN "done" ELSE "open",
                             !.retval = IF early THEN earlyVal ELSE -1]]
        /\ ncalls' = ncalls + 1
        /\ UNCHANGED <<sysfs, fdtab, outv, handed, lastSet, owns, lastExport>>

\* snprintf of the file's path and open(): failure returns false
OpenStep(c, path, flags, next) ==
    \E fd \in OpenRets(sysfs, path) :
        /\ fdtab' = AfterOpen(fdtab, fd, path, flags)
        /\ t' = [t EXCEPT ![c] =
                   [@ EXCEPT !.cmd_buf = path, !.fd = fd,
                             !.sys = Sys(t[c], "open", fd),
                             !.pc = IF fd < 0 THEN "done" ELSE next,
                             !.retval = IF fd < 0 THEN ret_false ELSE -1]]
        /\ UNCHANGED <<sysfs, outv, handed, lastSet, ncalls, owns, lastExport>>

\* (a variant in which the descriptor is kept in a variable shared by all
\* callers, which holds the descriptor opened for writing last)
WriteStep_shared_fd(c, buf, formatted) ==
    LET ws == {fd \in OpenFds : fdtab[fd].flags = "O_WRONLY"}
        fd == IF ws = {} THEN t[c].fd
              ELSE CHOOSE w \in ws : \A v \in ws : v <= w
    IN  \E r \in (IF Writable(fd) THEN WriteRets(fdtab[fd].path, buf) ELSE {-1}) :
        /\ sysfs' = AfterWrite(sysfs, fdtab[fd].path, buf, r)
        /\ t' = [t EXCEPT ![c] =
                   [@ EXCEPT !.cmd_buf = IF formatted THEN buf ELSE @,
                             !.len = IF formatted THEN Len(buf) ELSE @,
                             !.ret = r, !.sys = Sys(t[c], "write", r),
                             !.pc = "close"]]
        /\ UNCHANGED <<fdtab, outv, handed, lastSet, ncalls, owns, lastExport>>

\* write(fd, buf, Len(buf)) on the caller's descriptor; formatted says that
\* buf was formatted into cmd_buf by len = snprintf(cmd_buf, ...) (otherwise
\* it is a string literal)
WriteStep(c, buf, formatted) ==
    \E r \in (IF Writable(t[c].fd) THEN WriteRets(fdtab[t[c].fd].path, buf)
              ELSE {-1}) :
        /\ sysfs' = AfterWrite(sysfs, fdtab[t[c].fd].path, buf, r)
        /\ t' = [t EXCEPT ![c] =
                   [@ EXCEPT !.cmd_buf = IF formatted THEN buf ELSE @,
                             !.len = IF formatted THEN Len(buf) ELSE @,
                             !.ret = r, !.sys = Sys(t[c], "write", r),
                             !.pc = "close"]]
        /\ UNCHANGED <<fdtab, outv, handed, lastSet, ncalls, owns, lastExport>>

\* the default branch of a switch: return false, the descriptor untouched
DefaultStep(c) ==
    /\ t' = [t EXCEPT ![c] = [@ EXCEPT !.pc = "done", !.retval = ret_false]]
    /\ UNCHANGED <<sysfs, fdtab, outv, handed, lastSet, ncalls, owns, lastExport>>

\* close(fd): after a failure (failed) its result is ignored and the
\* function returns false; otherwise the function returns whether it is 0
CloseStep(c, failed) ==
    \E r \in CloseRets :
        /\ fdtab' = AfterClose(fdtab, t[c].fd)
        /\ t' = [t EXCEPT ![c] =
                   [@ EXCEPT !.ret = IF failed THEN @ ELSE r,
                             !.sys = Sys(t[c], "close", r),
                             !.pc = "done",
                             !.retval = IF failed \/ r # 0 THEN ret_false
                                        ELSE ret_true]]
        /\ UNCHANGED <<sysfs, outv, handed, ncalls, owns, lastExport>>

(***************************************************************************)
(* gpio_export                                                             *)
(***************************************************************************)
\* (a variant with the test of access() inverted)
gpio_export_access_inverted(c) ==
    /\ \E p \in Pins : AccessStep(c, "gpio_export", p, -1, -1, ret_true)

gpio_export_access(c) ==
    /\ \E p \in Pins : AccessStep(c, "gpio_export", p, -1, 0, ret_true)

gpio_export_open(c) ==
    /\ At(c, "gpio_export", "open")
    /\ OpenStep(c, PathExport, "O_WRONLY", "write")

gpio_export_write(c) ==
    /\ At(c, "gpio_export", "write")
    /\ WriteStep(c, Dec(t[c].gpio_num), TRUE)

gpio_export_close(c) ==
    /\ At(c, "gpio_export", "close")
    /\ CloseStep(c, t[c].len # t[c].ret)
    /\ UNCHANGED lastSet

(***************************************************************************)
(* gpio_unexport                                                           *)
(***************************************************************************)
\* (a variant with the test of access() as in gpio_export)
gpio_unexport_access_inverted(c) ==
    /\ \E p \in Pins : AccessStep(c, "gpio_unexport", p, -1, 0, ret_true)

gpio_unexport_access(c) ==
    /\ \E p \in Pins : AccessStep(c, "gpio_unexport", p, -1, -1, ret_true)

gpio_unexport_open(c) ==
    /\ At(c, "gpio_unexport", "open")
    /\ OpenStep(c, PathUnexport, "O_WRONLY", "write")

gpio_unexport_write(c) ==
    /\ At(c, "gpio_unexport", "write")
    /\ WriteStep(c, Dec(t[c].gpio_num), TRUE)

gpio_unexport_close(c) ==
    /\ At(c, "gpio_unexport", "close")
    /\ CloseStep(c, t[c].len # t[c].ret)
    /\ UNCHANGED lastSet

(***************************************************************************)
(* gpio_set_direction                                                      *)
(***************************************************************************)
DirectionLiteral(direction) ==
    CASE direction = E_GPIO_IN -> lit_in
      [] direction = E_GPIO_OUT -> lit_out
      [] OTHER -> <<>>

\* (a variant with the test of access() inverted)
gpio_set_direction_access_inverted(c) ==
    /\ \E p \in Pins, d \in DirectionArgs :
          AccessStep(c, "gpio_set_direction", p, d, 0, ret_false)

gpio_set_direction_access(c) ==
    /\ \E p \in Pins, d \in DirectionArgs :
          AccessStep(c, "gpio_set_direction", p, d, -1, ret_false)

gpio_set_direction_open(c) ==
    /\ At(c, "gpio_set_direction", "open")
    /\ OpenStep(c, PathDirection(t[c].gpio_num), "O_WRONLY", "write")

gpio_set_direction_write(c) ==
    /\ At(c, "gpio_set_direction", "write")
    /\ IF t[c].arg \in {E_GPIO_IN, E_GPIO_OUT}
       THEN WriteStep(c, DirectionLiteral(t[c].arg), FALSE)
       ELSE DefaultStep(c)

gpio_set_direction_close(c) ==
    /\ At(c, "gpio_set_direction", "close")
    /\ CloseStep(c, t[c].ret = -1)
    /\ UNCHANGED lastSet

(***************************************************************************)
(* gpio_set_value                                                          *)
(***************************************************************************)
ValueLiteral(value) ==
    CASE value = E_GPIO_LOW -> lit_0
      [] value = E_GPIO_HIGH -> lit_1
      [] OTHER -> <<>>

gpio_set_value_access(c) ==
    /\ \E p \in Pins, v \in ValueArgs :
          AccessStep(c, "gpio_set_value", p, v, -1, ret_false)

gpio_set_value_open(c) ==
    /\ At(c, "gpio_set_value", "open")
    /\ OpenStep(c, PathValue(t[c].gpio_num), "O_WRONLY", "write")

gpio_set_value_write(c) ==
    /\ At(c, "gpio_set_value", "write")
    /\ IF t[c].arg \in {E_GPIO_LOW, E_GPIO_HIGH}
       THEN WriteStep(c, ValueLiteral(t[c].arg), FALSE)
       ELSE DefaultStep(c)

\* lastSet[p] holds the level of the last gpio_set_value(p, .) that returned
\* true (it is empty when there was none)
gpio_set_value_close(c) ==
    /\ At(c, "gpio_set_value", "close")
    /\ CloseStep(c, t[c].ret = -1)
    /\ lastSet' = IF t'[c].retval = ret_true
                  THEN [lastSet EXCEPT ![t[c].gpio_num] = {t[c].arg}]
                  ELSE lastSet

(***************************************************************************)
(* gpio_get_value.  The argument value is a pointer: 0 is NULL, 1 is the   *)
(* address of the caller's variable outv[c].                               *)
(***************************************************************************)
NULL == 0

gpio_get_value_null(c) ==
    /\ \E p \in Pins :
          /\ CanCall(c, p)
          /\ t' = [t EXCEPT ![c] =
                     [Enter(c, "gpio_get_value", p, NULL) EXCEPT
                         !.pc = "done", !.retval = ret_false]]
    /\ ncalls' = ncalls + 1
    /\ UNCHANGED <<sysfs, fdtab, outv, handed, lastSet, owns, lastExport>>

gpio_get_value_access(c) ==
    /\ \E p \in Pins : AccessStep(c, "gpio_get_value", p, 1, -1, ret_false)

gpio_get_value_open(c) ==
    /\ At(c, "gpio_get_value", "open")
    /\ OpenStep(c, PathValue(t[c].gpio_num), "O_RDONLY", "read")

\* (a variant with the two cases of the switch exchanged)
LevelOf_swapped(ch, old) ==
    IF ch = "0" THEN E_GPIO_HIGH
    ELSE IF ch = "1" THEN E_GPIO_LOW
    ELSE old

\* (a variant whose default case stores LOW)
LevelOf_default_low(ch, old) ==
    IF ch = "1" THEN E_GPIO_HIGH ELSE E_GPIO_LOW

\* the level the switch on ch stores in *value, given the level it holds
LevelOf(ch, old) ==
    IF ch = "0" THEN E_GPIO_LOW
    ELSE IF ch = "1" THEN E_GPIO_HIGH
    ELSE old

\* read(fd, &ch, 1), then the switch on ch that stores the level in *value
gpio_get_value_read(c) ==
    /\ At(c, "gpio_get_value", "read")
    /\ LET content == sysfs.value[ParseDec(fdtab[t[c].fd].path.num)] IN
       \E r \in (IF Readable(t[c].fd) THEN ReadRets(content) ELSE {-1}) :
          LET ch == IF r = 1 THEN content[1] ELSE t[c].ch IN
          /\ t' = [t EXCEPT ![c] =
                     [@ EXCEPT !.ret = r, !.ch = ch,
                               !.sys = Sys(t[c], "read", r), !.pc = "close"]]
          /\ outv' = IF r = -1 THEN outv
                     ELSE [outv EXCEPT ![c] = LevelOf(ch, @)]
    /\ UNCHANGED <<sysfs, fdtab, handed, lastSet, ncalls, owns, lastExport>>

gpio_get_value_close(c) ==
    /\ At(c, "gpio_get_value", "close")
    /\ CloseStep(c, t[c].ret = -1 \/ t[c].ch \notin {"0", "1"})
    /\ UNCHANGED lastSet

(***************************************************************************)
(* gpio_set_edge                                                           *)
(***************************************************************************)
EdgeLiteral(edge) ==
    CASE edge = E_GPIO_NONE -> lit_none
      [] edge = E_GPIO_RISING -> lit_rising
      [] edge = E_GPIO_FALLING -> lit_falling
      [] edge = E_GPIO_BOTH -> lit_both
      [] OTHER -> <<>>

gpio_set_edge_access(c) ==
    /\ \E p \in Pins, e \in EdgeArgs :
          AccessStep(c, "gpio_set_edge", p, e, -1, ret_false)

gpio_set_edge_open(c) ==
    /\ At(c, "gpio_set_edge", "open")
    /\ OpenStep(c, PathEdge(t[c].gpio_num), "O_WRONLY", "write")

gpio_set_edge_write(c) ==
    /\ At(c, "gpio_set_edge", "write")
    /\ IF t[c].arg \in {E_GPIO_NONE, E_GPIO_RISING, E_GPIO_FALLING, E_GPIO_BOTH}
       THEN WriteStep(c, EdgeLiteral(t[c].arg), FALSE)
       ELSE DefaultStep(c)

gpio_set_edge_close(c) ==
    /\ At(c, "gpio_set_edge", "close")
    /\ CloseStep(c, t[c].ret = -1)
    /\ UNCHANGED lastSet

(***************************************************************************)
(* gpio_open and gpio_close.  handed is the set of descriptors gpio_open   *)
(* returned that were not yet passed to gpio_close.                        *)
(***************************************************************************)
\* (a variant that leaves out O_NONBLOCK)
gpio_open_flags_blocking == "O_RDONLY"

\* the flags gpio_open passes to open()
gpio_open_flags == "O_RDONLY|O_NONBLOCK"

gpio_open(c) ==
    /\ \E p \in Pins :
          /\ CanCall(c, p)
          /\ \E fd \in OpenRets(sysfs, PathValue(p)) :
                LET e == Enter(c, "gpio_open", p, -1) IN
                /\ fdtab' = AfterOpen(fdtab, fd, PathValue(p), gpio_open_flags)
                /\ t' = [t EXCEPT ![c] =
                           [e EXCEPT !.cmd_buf = PathValue(p), !.fd = fd,
                                     !.sys = Sys(e, "open", fd),
                                     !.pc = "done", !.retval = fd]]
                /\ handed' = IF fd >= 0 THEN handed \cup {fd} ELSE handed
    /\ ncalls' = ncalls + 1
    /\ UNCHANGED <<sysfs, outv, lastSet, owns, lastExport>>

\* the pin whose value file descriptor fd is open on
PinOfFd(fd) == ParseDec(fdtab[fd].path.num)

\* callers pass a descriptor gpio_open gave them for one of their pins, or -1
gpio_close(c) ==
    /\ \E p \in Pins : CanCall(c, p)
    /\ \E fd \in {h \in handed : PinOfFd(h) \in owns[c]} \cup {-1} :
       \E r \in (IF fd \in OpenFds THEN CloseRets ELSE {-1}) :
          LET e == Enter(c, "gpio_close", -1, fd) IN
          /\ fdtab' = AfterClose(fdtab, fd)
          /\ t' = [t EXCEPT ![c] =
                     [e EXCEPT !.sys = Sys(e, "close", r), !.pc = "done",
                               !.retval = IF r = 0 THEN ret_true ELSE ret_false]]
          /\ handed' = handed \ {fd}
    /\ ncalls' = ncalls + 1
    /\ UNCHANGED <<sysfs, outv, lastSet, owns, lastExport>>

\* the function returns to the caller, which takes its result
\* (lastExport is {P} when the call that returned last was a gpio_export(P)
\* that returned true, and empty otherwise)
Return(c) ==
    /\ t[c].pc = "done"
    /\ t' = [t EXCEPT ![c] = Idle]
    /\ lastExport' = IF t[c].op = "gpio_export" /\ t[c].retval = ret_true
                     THEN {t[c].gpio_num} ELSE {}
    /\ UNCHANGED <<sysfs, fdtab, outv, handed, lastSet, ncalls, owns>>

(***************************************************************************)
(* The specifications: Spec has one caller, SpecConc two.                  *)
(***************************************************************************)
\* what a value file may hold when the program starts
Contents == {lit_0, lit_1, <<"x">>, <<>>}

InitCommon ==
    /\ sysfs \in [exported : SUBSET Pins,
                  direction : {[p \in Pins |-> lit_in]},
                  value : [Pins -> Contents],
                  edge : {[p \in Pins |-> lit_none]}]
    /\ fdtab = [fd \in FdNums |-> Closed]
    /\ t = [c \in Callers |-> Idle]
    /\ outv = [c \in Callers |-> E_GPIO_LOW]
    /\ handed = {}
    /\ lastSet = [p \in Pins |-> {}]
    /\ ncalls = 0
    /\ lastExport = {}

Init ==
    /\ InitCommon
    /\ sysfs.value[12] = lit_1
    /\ owns = [c \in Callers |-> IF c = 1 THEN Pins ELSE {}]

InitConc ==
    /\ InitCommon
    /\ sysfs.exported = {7}
    /\ sysfs.value = [p \in Pins |-> IF p = 7 THEN lit_0 ELSE lit_1]
    /\ owns = [c \in Callers |-> IF c = 1 THEN {7} ELSE {12}]

Next ==
    \E c \in Callers :
        \/ gpio_export_access(c)
        \/ gpio_export_open(c)
        \/ gpio_export_write(c)
        \/ gpio_export_close(c)
        \/ gpio_unexport_access(c)
        \/ gpio_unexport_open(c)
        \/ gpio_unexport_write(c)
        \/ gpio_unexport_close(c)
        \/ gpio_set_direction_access(c)
        \/ gpio_set_direction_open(c)
        \/ gpio_set_direction_write(c)
        \/ gpio_set_direction_close(c)
        \/ gpio_set_value_access(c)
        \/ gpio_set_value_open(c)
        \/ gpio_set_value_write(c)
        \/ gpio_set_value_close(c)
        \/ gpio_get_value_null(c)
        \/ gpio_get_value_access(c)
        \/ gpio_get_value_open(c)
        \/ gpio_get_value_read(c)
        \/ gpio_get_value_close(c)
        \/ gpio_set_edge_access(c)
        \/ gpio_set_edge_open(c)
        \/ gpio_set_edge_write(c)
        \/ gpio_set_edge_close(c)
        \/ gpio_open(c)
        \/ gpio_close(c)
        \/ Return(c)

Spec == Init /\ [][Next]_vars

SpecConc == InitConc /\ [][Next]_vars

(***************************************************************************)
(* Vocabulary of the properties.                                           *)
(***************************************************************************)
\* the system calls caller c's current call has made
Made(c) == {t[c].sys[i].call : i \in 1..Len(t[c].sys)}

\* what system call name returned in the trace sq (-1 when it was not made)
RetOf(sq, name) ==
    IF \E i \in 1..Len(sq) : sq[i].call = name
    THEN sq[CHOOSE i \in 1..Len(sq) : sq[i].call = name].ret
    ELSE -1

\* caller c's call of function f has returned
Done(c, f) == t[c].op = f /\ t[c].pc = "done"

\* the pin was exported when caller c made its call
WasExported(c) == t[c].gpio_num \in t[c].pre.sysfs.exported

\* the call changed nothing: the kernel-visible state of every pin and the
\* set of open descriptors are as they were when the call was made
NothingChanged(c) ==
    /\ View(sysfs, owns[c]) = t[c].pre.sysfs
    /\ OpenFds = t[c].pre.open

(***************************************************************************)
(* C1: on a pin that is not exported, gpio_set_direction, gpio_set_value,  *)
(* gpio_set_edge and gpio_get_value return false, whatever their second    *)
(* argument, having made no system call but access(): no file is opened or *)
(* written and the kernel-visible state of every pin is unchanged.         *)
(***************************************************************************)
NeedExported ==
    {"gpio_set_direction", "gpio_set_value", "gpio_set_edge", "gpio_get_value"}

\* C1: a call of one of these functions on a pin that is not exported has
\* returned false after access() alone, and nothing changed
C1_NotExportedFails ==
    \A c \in Callers :
        (t[c].op \in NeedExported /\ ~WasExported(c)) =>
            /\ t[c].pc = "done"
            /\ t[c].retval = ret_false
            /\ Made(c) \subseteq {"access"}
            /\ NothingChanged(c)

C1_Witness ==
    \E c \in Callers :
        /\ Done(c, "gpio_set_edge")
        /\ ~WasExported(c)
        /\ t[c].arg = E_GPIO_BOTH
        /\ Made(c) = {"access"}

(***************************************************************************)
(* C2: gpio_export is idempotent.  A gpio_export(P) that finds P exported  *)
(* returns true at once, without opening or writing the export file, and   *)
(* changes nothing; a gpio_export(P) whose open, write and close of the    *)
(* export file all succeed returns true; one that returns true leaves P    *)
(* exported and nothing else changed; and the call that follows a          *)
(* gpio_export(P) that returned true finds P exported.                     *)
(***************************************************************************)
C2_ExportIdempotent ==
    \A c \in Callers :
        Done(c, "gpio_export") =>
            LET p == t[c].gpio_num
                sq == t[c].sys
            IN  /\ WasExported(c) =>
                      /\ t[c].retval = ret_true
                      /\ Made(c) = {"access"}
                      /\ NothingChanged(c)
                /\ (/\ RetOf(sq, "open") >= 0
                    /\ RetOf(sq, "write") = Len(Dec(p))
                    /\ RetOf(sq, "close") = 0) => t[c].retval = ret_true
                /\ t[c].retval = ret_true =>
                      /\ View(sysfs, owns[c]) =
                            [t[c].pre.sysfs EXCEPT !.exported = @ \cup {p}]
                      /\ OpenFds = t[c].pre.open
                /\ lastExport = {p} => WasExported(c)

\* the second of two gpio_export(P) in a row, the first of which wrote the
\* export file
C2_Witness ==
    \E c \in Callers :
        /\ Done(c, "gpio_export")
        /\ lastExport = {t[c].gpio_num}
        /\ t[c].retval = ret_true
        /\ Made(c) = {"access"}
        /\ ncalls = 2

(***************************************************************************)
(* C3: gpio_unexport of a pin whose directory does not exist returns true  *)
(* as a no-op: it does not open or write the unexport file and leaves the  *)
(* kernel-visible state of every pin unchanged.                            *)
(***************************************************************************)
C3_UnexportNoop ==
    \A c \in Callers :
        (t[c].op = "gpio_unexport" /\ ~WasExported(c)) =>
            /\ t[c].pc = "done"
            /\ t[c].retval = ret_true
            /\ Made(c) = {"access"}
            /\ NothingChanged(c)

C3_Witness ==
    \E c \in Callers : Done(c, "gpio_unexport") /\ ~WasExported(c)

(***************************************************************************)
(* C4: gpio_get_value on an exported pin whose value file was opened.      *)
(***************************************************************************)
\* the call read the value file
ReadMade(c) == Done(c, "gpio_get_value") /\ "read" \in Made(c)

\* read() delivered the character x
GotChar(c, x) == RetOf(t[c].sys, "read") = 1 /\ t[c].ch = x

Succeeded(c) == t[c].retval = ret_true

\* C4 as claimed: success with LOW exactly when the character read is '0',
\* success with HIGH exactly when it is '1', failure for every other
\* content, an empty file and a read error
C4_AsClaimed ==
    \A c \in Callers :
        ReadMade(c) =>
            /\ (Succeeded(c) /\ outv[c] = E_GPIO_LOW) <=> GotChar(c, "0")
            /\ (Succeeded(c) /\ outv[c] = E_GPIO_HIGH) <=> GotChar(c, "1")
            /\ (~GotChar(c, "0") /\ ~GotChar(c, "1")) => ~Succeeded(c)

\* C4 amended: success with LOW exactly when the character read is '0' and
\* the final close succeeds, success with HIGH exactly when it is '1' and
\* the final close succeeds; failure for every other content, an empty file
\* and a read error
C4_GetValueMapping ==
    \A c \in Callers :
        ReadMade(c) =>
            LET closed == RetOf(t[c].sys, "close") = 0 IN
            /\ (Succeeded(c) /\ outv[c] = E_GPIO_LOW) <=>
                  (GotChar(c, "0") /\ closed)
            /\ (Succeeded(c) /\ outv[c] = E_GPIO_HIGH) <=>
                  (GotChar(c, "1") /\ closed)
            /\ (~GotChar(c, "0") /\ ~GotChar(c, "1")) => ~Succeeded(c)

C4_Witness ==
    \E c \in Callers :
        /\ ReadMade(c)
        /\ GotChar(c, "1")
        /\ Succeeded(c)
        /\ outv[c] = E_GPIO_HIGH
        /\ t[c].pre.outv = E_GPIO_LOW

(***************************************************************************)
(* C5: every function that writes a sysfs file returns false when its      *)
(* write failed or was short: none returns true unless the whole literal   *)
(* was written.                                                            *)
(***************************************************************************)
\* the string the call writes
Written(c) ==
    CASE t[c].op \in {"gpio_export", "gpio_unexport"} -> Dec(t[c].gpio_num)
      [] t[c].op = "gpio_set_direction" -> DirectionLiteral(t[c].arg)
      [] t[c].op = "gpio_set_value" -> ValueLiteral(t[c].arg)
      [] t[c].op = "gpio_set_edge" -> EdgeLiteral(t[c].arg)
      [] OTHER -> <<>>

\* C5: a call that made its write and returned true wrote the whole string
C5_ShortWriteFails ==
    \A c \in Callers :
        (t[c].pc = "done" /\ "write" \in Made(c)) =>
            (Succeeded(c) => RetOf(t[c].sys, "write") = Len(Written(c)))

(***************************************************************************)
(* C6: whenever no call is in progress, the descriptors open in the        *)
(* process are exactly those gpio_open returned and gpio_close has not     *)
(* been given: no other function returns with its descriptor open.         *)
(***************************************************************************)
C6_NoDescriptorLeft ==
    (\A c \in Callers : t[c].pc \in {"idle", "done"}) => OpenFds = handed

(***************************************************************************)
(* C7: round trip.  When gpio_get_value(P) returns true after a            *)
(* gpio_set_value(P, level) returned true (lastSet[P], with no later       *)
(* successful gpio_set_value(P, .)), it reports that level.  A successful  *)
(* gpio_export(P) and gpio_set_direction(P, OUT) before them do not touch  *)
(* the value file.                                                         *)
(***************************************************************************)
C7_RoundTrip ==
    \A c \in Callers :
        (Done(c, "gpio_get_value") /\ Succeeded(c)
            /\ lastSet[t[c].gpio_num] # {}) =>
                lastSet[t[c].gpio_num] = {outv[c]}

(***************************************************************************)
(* C8: gpio_open.                                                          *)
(***************************************************************************)
\* descriptor fd is open on gpioP/value, read-only and non-blocking
IsValueFd(fd, p) ==
    /\ fd \in OpenFds
    /\ fdtab[fd] = [path |-> PathValue(p), flags |-> "O_RDONLY|O_NONBLOCK"]

\* C8 as claimed: a valid descriptor when P is exported, -1 with nothing
\* opened or changed when it is not
C8_AsClaimed ==
    \A c \in Callers :
        Done(c, "gpio_open") =>
            /\ WasExported(c) =>
                  (t[c].retval >= 0 /\ IsValueFd(t[c].retval, t[c].gpio_num))
            /\ ~WasExported(c) => (t[c].retval = -1 /\ NothingChanged(c))

\* C8 amended: when P is exported and open() succeeds, the descriptor open()
\* returned, open on gpioP/value read-only and non-blocking; when P is not
\* exported or open() fails, -1 with nothing opened or changed
C8_OpenValueFd ==
    \A c \in Callers :
        Done(c, "gpio_open") =>
            LET fd == RetOf(t[c].sys, "open") IN
            /\ (WasExported(c) /\ fd >= 0) =>
                  /\ t[c].retval = fd
                  /\ IsValueFd(fd, t[c].gpio_num)
                  /\ fd \notin t[c].pre.open
                  /\ OpenFds = t[c].pre.open \cup {fd}
                  /\ View(sysfs, owns[c]) = t[c].pre.sysfs
            /\ (~WasExported(c) \/ fd < 0) =>
                  (t[c].retval = -1 /\ NothingChanged(c))

C8_Witness ==
    \E c \in Callers :
        /\ Done(c, "gpio_open")
        /\ WasExported(c)
        /\ t[c].retval >= 0
        /\ t[c].pre.open # {}

(***************************************************************************)
(* C10: the caller's variable after gpio_get_value.                        *)
(***************************************************************************)
\* C10 as claimed: whenever gpio_get_value returns false, *value is what it
\* was before the call
C10_AsClaimed ==
    \A c \in Callers :
        (Done(c, "gpio_get_value") /\ ~Succeeded(c)) =>
            outv[c] = t[c].pre.outv

\* C10 amended: when gpio_get_value returns false because of a null
\* pointer, a pin that is not exported, an open failure, a read failure or
\* an unexpected character, *value is what it was before the call; when it
\* returns false because the final close failed, *value holds the level
\* that was read
C10_OutputOnFailure ==
    \A c \in Callers :
        (Done(c, "gpio_get_value") /\ ~Succeeded(c)) =>
            IF GotChar(c, "0") THEN outv[c] = E_GPIO_LOW
            ELSE IF GotChar(c, "1") THEN outv[c] = E_GPIO_HIGH
            ELSE outv[c] = t[c].pre.outv

\* a failure on an unexpected character, with *value holding HIGH before
C10_Witness ==
    \E c \in Callers :
        /\ Done(c, "gpio_get_value")
        /\ ~Succeeded(c)
        /\ GotChar(c, "x")
        /\ t[c].pre.outv = E_GPIO_HIGH
        /\ outv[c] = E_GPIO_HIGH

(***************************************************************************)
(* C9: calls for different pins are independent.  Under SpecConc two       *)
(* callers make calls for different pins, their system calls interleaved   *)
(* in every order.  Alone is what a call does when it runs alone, from the *)
(* state ps of its pin and the level out of the caller's variable: the     *)
(* function read as one sequential program, where each system call returns *)
(* what the trace sq says it returned.                                     *)
(***************************************************************************)
\* the kernel-visible state of pin p
PinState(fs, p) == [exported |-> p \in fs.exported,
                    direction |-> fs.direction[p],
                    value |-> fs.value[p],
                    edge |-> fs.edge[p]]

\* a function that writes literal lit to file attr of an exported pin
AloneSet(ps, out, sq, attr, lit, known) ==
    IF ~ps.exported \/ RetOf(sq, "open") < 0 THEN [ok |-> FALSE, ps |-> ps, out |-> out]
    ELSE IF ~known THEN [ok |-> FALSE, ps |-> ps, out |-> out]
    ELSE LET w == RetOf(sq, "write")
             ps2 == IF w = Len(lit) THEN [ps EXCEPT ![attr] = lit] ELSE ps
         IN  [ok |-> w # -1 /\ RetOf(sq, "close") = 0, ps |-> ps2, out |-> out]

\* gpio_export (to = TRUE) and gpio_unexport (to = FALSE) of pin p
AloneExport(p, ps, out, sq, to) ==
    IF ps.exported = to THEN [ok |-> TRUE, ps |-> ps, out |-> out]
    ELSE IF RetOf(sq, "open") < 0 THEN [ok |-> FALSE, ps |-> ps, out |-> out]
    ELSE LET w == RetOf(sq, "write")
             full == w = Len(Dec(p))
             ps2 == IF full THEN [ps EXCEPT !.exported = to] ELSE ps
         IN  [ok |-> full /\ RetOf(sq, "close") = 0, ps |-> ps2, out |-> out]

AloneGet(a, ps, out, sq) ==
    IF a = NULL \/ ~ps.exported \/ RetOf(sq, "open") < 0
        \/ RetOf(sq, "read") = -1 \/ Len(ps.value) = 0
    THEN [ok |-> FALSE, ps |-> ps, out |-> out]
    ELSE LET ch == ps.value[1] IN
         IF ch = "0" THEN [ok |-> RetOf(sq, "close") = 0, ps |-> ps, out |-> E_GPIO_LOW]
         ELSE IF ch = "1" THEN [ok |-> RetOf(sq, "close") = 0, ps |-> ps, out |-> E_GPIO_HIGH]
         ELSE [ok |-> FALSE, ps |-> ps, out |-> out]

Alone(f, p, a, ps, out, sq) ==
    CASE f = "gpio_export" -> AloneExport(p, ps, out, sq, TRUE)
      [] f = "gpio_unexport" -> AloneExport(p, ps, out, sq, FALSE)
      [] f = "gpio_set_direction" ->
           AloneSet(ps, out, sq, "direction",
                    IF a = E_GPIO_IN THEN lit_in ELSE lit_out,
                    a \in {E_GPIO_IN, E_GPIO_OUT})
      [] f = "gpio_set_value" ->
           AloneSet(ps, out, sq, "value",
                    IF a = E_GPIO_LOW THEN lit_0 ELSE lit_1,
                    a \in {E_GPIO_LOW, E_GPIO_HIGH})
      [] f = "gpio_set_edge" ->
           AloneSet(ps, out, sq, "edge",
                    CASE a = E_GPIO_NONE -> lit_none
                      [] a = E_GPIO_RISING -> lit_rising
                      [] a = E_GPIO_FALLING -> lit_falling
                      [] OTHER -> lit_both,
                    a \in {E_GPIO_NONE, E_GPIO_RISING, E_GPIO_FALLING, E_GPIO_BOTH})
      [] f = "gpio_get_value" -> AloneGet(a, ps, out, sq)
      [] f = "gpio_open" ->
           [ok |-> ps.exported /\ RetOf(sq, "open") >= 0, ps |-> ps, out |-> out]
      [] OTHER -> [ok |-> RetOf(sq, "close") = 0, ps |-> ps, out |-> out]

\* whether the call reported success (gpio_open: a valid descriptor)
ReportedOk(c) ==
    IF t[c].op = "gpio_open" THEN t[c].retval >= 0 ELSE t[c].retval = ret_true

\* the pin caller c's call is about
PinOfCall(c) ==
    IF t[c].op = "gpio_close" THEN CHOOSE p \in owns[c] : TRUE
    ELSE t[c].gpio_num

\* C9: when a call returns, its result, the kernel-visible state of its pin
\* and the caller's variable are what the call produces alone from the
\* state its pin had when it was made, whatever the other caller did on its
\* own pin in the meantime
C9_Independent ==
    \A c \in Callers :
        t[c].pc = "done" =>
            LET p == PinOfCall(c)
                alone == Alone(t[c].op, p, t[c].arg,
                               [exported |-> p \in t[c].pre.sysfs.exported,
                                direction |-> t[c].pre.sysfs.direction[p],
                                value |-> t[c].pre.sysfs.value[p],
                                edge |-> t[c].pre.sysfs.edge[p]],
                               t[c].pre.outv, t[c].sys)
            IN  /\ ReportedOk(c) = alone.ok
                /\ PinState(sysfs, p) = alone.ps
                /\ outv[c] = alone.out

\* a gpio_set_value on one pin returns after the other caller's gpio_export
\* of the other pin wrote the export file in the middle of it
C9_Witness ==
    \E c \in Callers, d \in Callers :
        /\ c # d
        /\ Done(c, "gpio_set_value")
        /\ Succeeded(c)
        /\ t[d].op = "gpio_export"
        /\ t[d].pc = "close"
        /\ RetOf(t[d].sys, "write") = Len(Dec(t[d].gpio_num))
        /\ t[d].fd < t[c].fd

====
